---- MODULE Spec2Model ----
(***************************************************************************)
(* renderizer: the command-line filter of main, the flag parser's view of  *)
(* the declared flags, the Before hook (template discovery and settings    *)
(* loading) and the renderizer action (argument loop, context assembly,    *)
(* render loop).                                                           *)
(*                                                                         *)
(* A Go string is a sequence of one-character strings, so that slicing,    *)
(* splitting and case conversion are computed and not assumed.             *)
(***************************************************************************)
EXTENDS Integers, Sequences, FiniteSets, TLC

VARIABLES
    pc,            \* position of the process
    osArgs,        \* os.Args[1:]
    cliArgs,       \* main: args[1:], what is handed to app.Run
    next,          \* main: next
    configs,       \* main: configs, the --settings values
    ctxArgs,       \* ctx.Args(), what the flag parser left over
    settings,      \* the package-level settings
    i,             \* index of the loop the process is in
    globalContext, \* renderizer: globalContext
    args,          \* renderizer: args
    files,         \* renderizer: files
    status,        \* renderizer: status
    exitCode,      \* the value given to os.Exit (read when pc = "exited")
    stdout,        \* what fmt.Println wrote, one entry per rendered target
    hist           \* record of what each step did (read by the properties only)

vars == <<pc, osArgs, cliArgs, next, configs, ctxArgs, settings, i, globalContext,
          args, files, status, exitCode, stdout, hist>>

-----------------------------------------------------------------------------
(* Bounds of the model. *)

\* longest settings.Arguments list renderizer is entered with
MaxArgs == 3
\* longest command line main is started with
MaxOsArgs == 3

-----------------------------------------------------------------------------
(* Strings. *)

UpperLetters == <<"A","B","C","D","E","F","G","H","I","J","K","L","M",
                  "N","O","P","Q","R","S","T","U","V","W","X","Y","Z">>
LowerLetters == <<"a","b","c","d","e","f","g","h","i","j","k","l","m",
                  "n","o","p","q","r","s","t","u","v","w","x","y","z">>

LetterIndex(letters, c) ==
    IF \E k \in 1..Len(letters) : letters[k] = c
    THEN CHOOSE k \in 1..Len(letters) : letters[k] = c
    ELSE 0

ToLowerCh(c) ==
    IF LetterIndex(UpperLetters, c) = 0 THEN c
    ELSE LowerLetters[LetterIndex(UpperLetters, c)]

ToUpperCh(c) ==
    IF LetterIndex(LowerLetters, c) = 0 THEN c
    ELSE UpperLetters[LetterIndex(LowerLetters, c)]

\* strings.ToLower
ToLower(s) == [k \in 1..Len(s) |-> ToLowerCh(s[k])]

\* strings.ToTitle (for the letters of the model, title case is upper case)
ToTitle(s) == [k \in 1..Len(s) |-> ToUpperCh(s[k])]

\* strings.HasPrefix
HasPrefix(s, p) == Len(s) >= Len(p) /\ SubSeq(s, 1, Len(p)) = p

\* strings.Contains(s, c) for a one-character c
Contains(s, c) == \E k \in 1..Len(s) : s[k] = c

\* s[n:] for 0 <= n <= len(s)
From(s, n) == SubSeq(s, n + 1, Len(s))

\* index of the first c in s, 0 when there is none
IndexCh(s, c) ==
    IF Contains(s, c)
    THEN CHOOSE k \in 1..Len(s) : s[k] = c /\ \A j \in 1..(k - 1) : s[j] # c
    ELSE 0

\* index of the last c in s, 0 when there is none
LastIndexCh(s, c) ==
    IF Contains(s, c)
    THEN CHOOSE k \in 1..Len(s) : s[k] = c /\ \A j \in (k + 1)..Len(s) : s[j] # c
    ELSE 0

RECURSIVE TrimLeft(_, _)
\* strings.TrimLeft(s, c) for a one-character cutset
TrimLeft(s, c) ==
    IF Len(s) > 0 /\ s[1] = c THEN TrimLeft(Tail(s), c) ELSE s

\* strings.SplitN(s, c, 2)
SplitN2(s, c) ==
    IF IndexCh(s, c) = 0 THEN <<s>>
    ELSE <<SubSeq(s, 1, IndexCh(s, c) - 1), From(s, IndexCh(s, c))>>

RECURSIVE Split(_, _)
\* strings.Split(s, c): Split("", c) is [""]
Split(s, c) ==
    IF IndexCh(s, c) = 0 THEN <<s>>
    ELSE <<SubSeq(s, 1, IndexCh(s, c) - 1)>> \o Split(From(s, IndexCh(s, c)), c)

RECURSIVE Join(_, _)
\* strings.Join(parts, c)
Join(parts, c) ==
    IF Len(parts) = 0 THEN <<>>
    ELSE IF Len(parts) = 1 THEN parts[1]
    ELSE parts[1] \o <<c>> \o Join(Tail(parts), c)

\* filepath.Base for a non-empty path without a trailing separator
Base(path) == From(path, LastIndexCh(path, "/"))

-----------------------------------------------------------------------------
(* Values of a context: a mapping is a function from keys (strings) to     *)
(* values, each value a nested mapping, a slice or a scalar.               *)

MapV(m) == [t |-> "map", m |-> m]
ListV(l) == [t |-> "list", l |-> l]
Scalar(kind, s) == [t |-> "val", kind |-> kind, s |-> s]

EmptyMap == [k \in {} |-> MapV(<<>>)]

Digits == {"0","1","2","3","4","5","6","7","8","9"}

\* the literal true of line 65
TrueValue == Scalar("bool", <<"t","r","u","e">>)

\* typer: the most specific of boolean, integer, string the text represents
typer(s) ==
    IF ToLower(s) \in {<<"t","r","u","e">>, <<"f","a","l","s","e">>}
    THEN Scalar("bool", ToLower(s))
    ELSE IF Len(s) > 0 /\ \A k \in 1..Len(s) : s[k] \in Digits
    THEN Scalar("int64", s)
    ELSE Scalar("string", s)

RECURSIVE retype(_)
\* retyper on one value: nested mappings recursively, a one-element slice
\* unwrapped, scalars typed and integers brought to one width
retype(v) ==
    IF v.t = "map" THEN MapV([k \in DOMAIN v.m |-> retype(v.m[k])])
    ELSE IF v.t = "list"
    THEN IF Len(v.l) = 1 THEN retype(v.l[1])
         ELSE ListV([k \in 1..Len(v.l) |-> retype(v.l[k])])
    ELSE IF v.t = "val"
    THEN IF v.kind = "string" THEN typer(v.s)
         ELSE IF v.kind = "int" THEN Scalar("int64", v.s)
         ELSE v
    ELSE v

retyper(m) == [k \in DOMAIN m |-> retype(m[k])]

-----------------------------------------------------------------------------
(* mergo.Merge without override: keys absent from dst are added, mappings  *)
(* merge recursively, a slice meets a slice by append (WithAppendSlice) or *)
(* is kept, and a value of one shape meeting another shape leaves dst as   *)
(* it is (the error mergo returns for it is dropped by the callers).       *)

\* a merge that keeps only the later slice
AppendSliceOverwrite(d, s) == s

AppendSlice(d, s) == d \o s

RECURSIVE MergoMerge(_, _, _)
MergeElem(d, s, appendSlice) ==
    IF s.t = "map" /\ d.t = "map" THEN MapV(MergoMerge(d.m, s.m, appendSlice))
    ELSE IF s.t = "list" /\ d.t = "list" /\ appendSlice
    THEN ListV(AppendSlice(d.l, s.l))
    ELSE d

MergoMerge(dst, src, appendSlice) ==
    [k \in (DOMAIN dst) \cup (DOMAIN src) |->
        IF k \notin DOMAIN src THEN dst[k]
        ELSE IF k \notin DOMAIN dst THEN src[k]
        ELSE MergeElem(dst[k], src[k], appendSlice)]

-----------------------------------------------------------------------------
(* renderizer: one name/value token. *)

\* line 34: the switch on arg[1:][0]
IsToggle(arg) == arg[2] \in {"c", "C"}

\* line 36
Flip(b) == ~b

\* line 45-46: the name and the optional value
NameValuePair(arg) == SplitN2(TrimLeft(arg, "-"), "=")

\* line 54: the path segments as written
Segments(arg) == Split(NameValuePair(arg)[1], ".")

\* a title case that upper-cases the whole segment
CapitalizedUpper(name) == ToTitle(name)

\* line 56: title case of one non-empty segment
Capitalized(name) == ToTitle(SubSeq(name, 1, 1)) \o ToLower(From(name, 1))

\* line 55-57
SegmentKey(name, capitalize) == IF capitalize THEN Capitalized(name) ELSE name

\* line 56 slices name[:1], which faults on an empty segment
SegmentFaults(arg, capitalize) ==
    capitalize /\ \E k \in 1..Len(Segments(arg)) : Len(Segments(arg)[k]) = 0

\* line 63-68: the one-element slice at the leaf
LeafValue(arg) ==
    IF Len(NameValuePair(arg)) = 1 THEN <<TrueValue>>
    ELSE <<typer(NameValuePair(arg)[2])>>

RECURSIVE Branch(_, _)
\* line 54-68: the single-branch mapping over the keys
Branch(keys, leaf) ==
    IF Len(keys) = 1 THEN keys[1] :> ListV(leaf)
    ELSE keys[1] :> MapV(Branch(Tail(keys), leaf))

\* line 43-68: currentContext
CurrentContext(arg, capitalize) ==
    Branch([k \in 1..Len(Segments(arg)) |-> SegmentKey(Segments(arg)[k], capitalize)],
           LeafValue(arg))

\* line 27-68: what the loop does with one argument
ArgKind(arg, capitalize) ==
    IF Len(arg) = 0 THEN "empty"
    ELSE IF arg[1] # "-" THEN "file"
    ELSE IF Len(arg) = 1 THEN "fault"        \* arg[1:][0] on an empty string
    ELSE IF IsToggle(arg) THEN "toggle"
    ELSE IF SegmentFaults(arg, capitalize) THEN "fault"
    ELSE "assign"

-----------------------------------------------------------------------------
(* renderizer: the context after the argument loop. *)

\* line 90-98
FilesOf(a) == IF Len(a) = 0 THEN << <<>> >> ELSE a

\* line 103-114: the integer widths brought to int64
Widen(v) ==
    IF v.t = "val" /\ v.kind = "int" THEN Scalar("int64", v.s) ELSE v

\* a copy in which the settings value wins
CopyConfigOverwrite(ctx, config) ==
    [n \in (DOMAIN ctx) \cup (DOMAIN config) |->
        IF n \in DOMAIN config THEN config[n] ELSE ctx[n]]

\* line 101-116
CopyConfig(ctx, config) ==
    [n \in (DOMAIN ctx) \cup (DOMAIN config) |->
        IF n \in DOMAIN ctx THEN ctx[n] ELSE Widen(config[n])]

\* os.Environ()
Environ == << <<"U","=","a">>, <<"P","=","x","=","y">> >>

\* line 119-123
EnvironMap ==
    LET names == {Split(Environ[k], "=")[1] : k \in 1..Len(Environ)}
        last(n) == CHOOSE k \in 1..Len(Environ) :
                      /\ Split(Environ[k], "=")[1] = n
                      /\ \A j \in (k + 1)..Len(Environ) : Split(Environ[j], "=")[1] # n
    IN [t |-> "strmap",
        m |-> [n \in names |-> Join(Tail(Split(Environ[last(n)], "=")), "=")]]

\* line 118
InjectsEnv(environment, a) == environment # <<>> \/ Len(a) = 0

\* line 124
InjectEnv(ctx, environment) ==
    [n \in (DOMAIN ctx) \cup {environment} |->
        IF n = environment THEN EnvironMap ELSE ctx[n]]

-----------------------------------------------------------------------------
(* renderizer: one template target. *)

\* line 150-184: the stages of a target; standard input is not opened
StagesOf(file) ==
    IF file = <<>> THEN <<"read", "parse", "execute">>
    ELSE <<"open", "read", "parse", "execute">>

\* what can happen to a target: every stage succeeds, or one stage returns an
\* error or faults
Outcomes(file) ==
    {[at |-> 0, how |-> "ok"]}
    \cup {[at |-> k, how |-> h] : k \in 1..Len(StagesOf(file)), h \in {"err", "panic"}}

\* line 156, 163, 173, 180, 186 and the recover of line 141-144
CodeOf(file, o) ==
    IF o.how = "ok" THEN 0
    ELSE IF o.how = "panic" THEN 15
    ELSE CASE StagesOf(file)[o.at] = "open" -> 1
           [] StagesOf(file)[o.at] = "read" -> 2
           [] StagesOf(file)[o.at] = "parse" -> 4
           [] StagesOf(file)[o.at] = "execute" -> 8

\* the stages a target went through: all of them, or up to the failing one
StagesRun(file, o) ==
    IF o.how = "ok" THEN StagesOf(file) ELSE SubSeq(StagesOf(file), 1, o.at)

\* line 184 is reached only past every return
Writes(file, o) == o.how = "ok"

RECURSIVE BitOr(_, _)
BitOr(a, b) ==
    IF a = 0 THEN b
    ELSE IF b = 0 THEN a
    ELSE (IF a % 2 = 1 \/ b % 2 = 1 THEN 1 ELSE 0) + 2 * BitOr(a \div 2, b \div 2)

\* a status that keeps only the last code
StatusLast(s, code) == code

\* line 139: status |= ...
StatusOr(s, code) == BitOr(s, code)

\* a loop that stops at the first failing target
NextTargetStop(k, code) == IF code = 0 THEN k + 1 ELSE Len(files) + 1

\* line 138: the loop goes on to the next file whatever the code was
NextTarget(k, code) == k + 1

-----------------------------------------------------------------------------
(* The actions of renderizer. *)

\* line 26-77: one iteration of the argument loop
ArgStep ==
    /\ pc = "args"
    /\ i <= Len(settings.Arguments)
    /\ LET arg == settings.Arguments[i]
           kind == ArgKind(arg, settings.Capitalize)
           cur == IF kind = "assign" THEN CurrentContext(arg, settings.Capitalize)
                  ELSE EmptyMap
       IN /\ pc' = IF kind = "fault" THEN "panic" ELSE "args"
          /\ i' = IF kind = "fault" THEN i ELSE i + 1
          /\ args' = IF kind = "file" THEN Append(args, arg) ELSE args
          /\ settings' = IF kind = "toggle"
                         THEN [settings EXCEPT !.Capitalize = Flip(@)]
                         ELSE settings
          /\ globalContext' = IF kind = "assign"
                              THEN MergoMerge(globalContext, cur, TRUE)
                              ELSE globalContext
          /\ hist' = [hist EXCEPT !.steps =
                         Append(@, [idx |-> i, kind |-> kind, ctx |-> cur])]
    /\ UNCHANGED <<osArgs, cliArgs, next, configs, ctxArgs, files, status, exitCode, stdout>>

\* line 79
Retype ==
    /\ pc = "args"
    /\ i > Len(settings.Arguments)
    /\ globalContext' = retyper(globalContext)
    /\ hist' = [hist EXCEPT !.merged = globalContext]
    /\ pc' = "files"
    /\ UNCHANGED <<osArgs, cliArgs, next, configs, ctxArgs, settings, i, args, files,
                   status, exitCode, stdout>>

\* line 90-98
ChooseFiles ==
    /\ pc = "files"
    /\ files' = FilesOf(args)
    /\ pc' = "config"
    /\ UNCHANGED <<osArgs, cliArgs, next, configs, ctxArgs, settings, i, globalContext,
                   args, status, exitCode, stdout, hist>>

\* line 101-116
ConfigCopy ==
    /\ pc = "config"
    /\ globalContext' = CopyConfig(globalContext, settings.Config)
    /\ hist' = [hist EXCEPT !.cli = globalContext]
    /\ pc' = "env"
    /\ UNCHANGED <<osArgs, cliArgs, next, configs, ctxArgs, settings, i, args, files,
                   status, exitCode, stdout>>

\* line 118-125, and line 137
EnvInject ==
    /\ pc = "env"
    /\ globalContext' = IF InjectsEnv(settings.Environment, args)
                        THEN InjectEnv(globalContext, settings.Environment)
                        ELSE globalContext
    /\ hist' = [hist EXCEPT !.injected = InjectsEnv(settings.Environment, args)]
    /\ status' = 0
    /\ i' = 1
    /\ pc' = "render"
    /\ UNCHANGED <<osArgs, cliArgs, next, configs, ctxArgs, settings, args, files,
                   exitCode, stdout>>

\* line 138-188: one target, from open to return
RenderTarget ==
    /\ pc = "render"
    /\ i <= Len(files)
    /\ \E o \in Outcomes(files[i]) :
        LET file == files[i]
            code == CodeOf(file, o)
        IN /\ status' = StatusOr(status, code)
           /\ stdout' = IF Writes(file, o) THEN Append(stdout, file) ELSE stdout
           /\ i' = NextTarget(i, code)
           /\ hist' = [hist EXCEPT !.targets =
                          Append(@, [file |-> file, stages |-> StagesRun(file, o),
                                     how |-> o.how, code |-> code,
                                     wrote |-> Len(stdout') - Len(stdout)])]
    /\ UNCHANGED <<pc, osArgs, cliArgs, next, configs, ctxArgs, settings, globalContext,
                   args, files, exitCode>>

\* line 190
Exit ==
    /\ pc = "render"
    /\ i > Len(files)
    /\ exitCode' = status
    /\ pc' = "exited"
    /\ UNCHANGED <<osArgs, cliArgs, next, configs, ctxArgs, settings, i, globalContext,
                   args, files, status, stdout, hist>>

NextRenderizer ==
    \/ ArgStep
    \/ Retype
    \/ ChooseFiles
    \/ ConfigCopy
    \/ EnvInject
    \/ RenderTarget
    \/ Exit

-----------------------------------------------------------------------------
(* The inputs. *)

\* the settings of line 56-65 of main
InitialSettings ==
    [Capitalize |-> TRUE, Stdin |-> FALSE, Defaulted |-> FALSE,
     Config |-> EmptyMap, ConfigFiles |-> <<>>, Arguments |-> <<>>,
     Templates |-> <<>>, Environment |-> <<"e","n","v">>]

InitialHist ==
    [steps |-> <<>>, merged |-> EmptyMap, cli |-> EmptyMap, injected |-> FALSE,
     targets |-> <<>>, loads |-> <<>>, discovered |-> FALSE, cliError |-> FALSE,
     classes |-> <<>>]

\* the tokens settings.Arguments is drawn from
ArgPool ==
    { <<"t">>, <<"u">>,
      <<"-","C">>,
      <<"-","-","a",".","b","=","1">>,
      <<"-","-","a",".","b","=","2">>,
      <<"-","-","a","=","x">>,
      <<"-","-","n","A","m","e","=","v">>,
      <<"-","-","=","v">>,
      <<"-">> }

\* settings mappings a settings file can hold
ConfigPool ==
    { EmptyMap,
      <<"A">> :> MapV(<<"B">> :> Scalar("int64", <<"9">>) @@ <<"C">> :> Scalar("int64", <<"2">>))
        @@ <<"D">> :> Scalar("int", <<"7">>)
        @@ <<"e","n","v">> :> Scalar("string", <<"s">>) }

RECURSIVE SeqsUpTo(_, _)
\* the sequences over pool of length at most n
SeqsUpTo(pool, n) ==
    IF n = 0 THEN { <<>> }
    ELSE SeqsUpTo(pool, n - 1)
         \cup {Append(s, x) : s \in {q \in SeqsUpTo(pool, n - 1) : Len(q) = n - 1}, x \in pool}

\* renderizer entered with any argument list and any settings mapping
Init ==
    /\ pc = "args"
    /\ osArgs = <<>>
    /\ cliArgs = <<>>
    /\ next = FALSE
    /\ configs = <<>>
    /\ ctxArgs = <<>>
    /\ \E a \in SeqsUpTo(ArgPool, MaxArgs), c \in ConfigPool :
          settings = [InitialSettings EXCEPT !.Arguments = a, !.Config = c]
    /\ i = 1
    /\ globalContext = EmptyMap
    /\ args = <<>>
    /\ files = <<>>
    /\ status = 0
    /\ exitCode = 0
    /\ stdout = <<>>
    /\ hist = InitialHist

Next == NextRenderizer

Spec == Init /\ [][Next]_vars

-----------------------------------------------------------------------------
(* main: the filter over os.Args[1:] (line 219-267). *)

LongToCli == { <<"d","e","b","u","g">>, <<"v","e","r","b","o","s","e">>,
               <<"v","e","r","s","i","o","n">>, <<"s","t","d","i","n">>,
               <<"h","e","l","p">> }

LongWithValue == { <<"s","e","t","t","i","n","g","s">>, <<"m","i","s","s","i","n","g">> }

\* a filter that keeps -c for the argument loop as it keeps -C
FilterClassBothCases(arg, nextFlag) ==
    IF nextFlag THEN "cli"
    ELSE IF HasPrefix(ToLower(arg), <<"-","-">>)
    THEN IF From(SplitN2(ToLower(arg), "=")[1], 2) \in LongWithValue
         THEN IF Contains(ToLower(arg), "=") THEN "cli" ELSE "cliNext"
         ELSE IF From(SplitN2(ToLower(arg), "=")[1], 2) \in LongToCli THEN "cli"
         ELSE "argument"
    ELSE IF HasPrefix(ToLower(arg), <<"-">>)
    THEN IF From(arg, 1) \in {<<"C">>, <<"c">>} THEN "argument"
         ELSE IF From(arg, 1) = <<"S">> THEN "cliNext"
         ELSE "cli"
    ELSE "template"

\* line 224-265: where one argument goes. "cli": to the flag parser;
\* "cliNext": to the flag parser, and so does the argument after it;
\* "template": to settings.Templates; "argument": to settings.Arguments
FilterClass(arg, nextFlag) ==
    IF nextFlag THEN "cli"
    ELSE IF HasPrefix(ToLower(arg), <<"-","-">>)
    THEN IF From(SplitN2(ToLower(arg), "=")[1], 2) \in LongWithValue
         THEN IF Contains(ToLower(arg), "=") THEN "cli" ELSE "cliNext"
         ELSE IF From(SplitN2(ToLower(arg), "=")[1], 2) \in LongToCli THEN "cli"
         ELSE "argument"
    ELSE IF HasPrefix(ToLower(arg), <<"-">>)
    THEN IF From(arg, 1) = <<"C">> THEN "argument"
         ELSE IF From(arg, 1) = <<"S">> THEN "cliNext"
         ELSE "cli"
    ELSE "template"

\* line 223-266: one iteration of the filter
FilterArg ==
    /\ pc = "filter"
    /\ i <= Len(osArgs)
    /\ LET arg == osArgs[i]
           class == FilterClass(arg, next)
       IN /\ cliArgs' = IF class \in {"cli", "cliNext"} THEN Append(cliArgs, arg)
                        ELSE cliArgs
          /\ next' = (class = "cliNext")
          /\ settings' =
                IF class = "template"
                THEN [settings EXCEPT !.Templates = Append(@, arg)]
                ELSE IF class = "argument"
                THEN [settings EXCEPT !.Arguments = Append(@, arg)]
                ELSE settings
          /\ hist' = [hist EXCEPT !.classes = Append(@, class)]
    /\ i' = i + 1
    /\ UNCHANGED <<pc, osArgs, configs, ctxArgs, globalContext, args, files,
                   status, exitCode, stdout>>

-----------------------------------------------------------------------------
(* app.Run: the flags declared at line 89-124, with the help and version   *)
(* flags the library adds, parsed the way the flag package parses.         *)

FlagOf(name) ==
    IF name \in {<<"s","e","t","t","i","n","g","s">>, <<"S">>, <<"s">>} THEN "settings"
    ELSE IF name \in {<<"m","i","s","s","i","n","g">>, <<"M">>, <<"m">>} THEN "missing"
    ELSE IF name \in {<<"e","n","v","i","r","o","n","m","e","n","t">>, <<"e","n","v">>,
                      <<"E">>, <<"e">>} THEN "environment"
    ELSE IF name \in {<<"s","t","d","i","n">>, <<"c">>} THEN "stdin"
    ELSE IF name \in {<<"d","e","b","u","g","g","i","n","g">>, <<"d","e","b","u","g">>,
                      <<"D">>} THEN "debugging"
    ELSE IF name \in {<<"v","e","r","b","o","s","e">>, <<"V">>} THEN "verbose"
    ELSE IF name \in {<<"h","e","l","p">>, <<"h">>} THEN "help"
    ELSE IF name \in {<<"v","e","r","s","i","o","n">>, <<"v">>} THEN "version"
    ELSE "none"

BoolFlags == {"stdin", "debugging", "verbose", "help", "version"}

TrueTexts == { <<"1">>, <<"t">>, <<"T">>, <<"t","r","u","e">>, <<"T","R","U","E">>,
               <<"T","r","u","e">> }
FalseTexts == { <<"0">>, <<"f">>, <<"F">>, <<"f","a","l","s","e">>,
                <<"F","A","L","S","E">>, <<"F","a","l","s","e">> }

ParseStart ==
    [err |-> FALSE, help |-> FALSE, stdin |-> FALSE, configs |-> <<>>, rest |-> <<>>]

RECURSIVE ParseFlags(_, _)
\* the flag set over the tokens: parsing ends at the first token that is no
\* flag, which stays in the rest with everything after it
ParseFlags(tokens, acc) ==
    IF Len(tokens) = 0 THEN acc
    ELSE LET s == tokens[1]
             minuses == IF Len(s) >= 2 /\ s[2] = "-" THEN 2 ELSE 1
             body == From(s, minuses)
             nv == SplitN2(body, "=")
             flag == FlagOf(nv[1])
         IN IF Len(s) < 2 \/ s[1] # "-" THEN [acc EXCEPT !.rest = tokens]
            ELSE IF s = <<"-","-">> THEN [acc EXCEPT !.rest = Tail(tokens)]
            ELSE IF body[1] \in {"-", "="} THEN [acc EXCEPT !.err = TRUE]
            ELSE IF flag = "none" THEN [acc EXCEPT !.err = TRUE]
            ELSE IF flag \in BoolFlags
            THEN IF Len(nv) = 2 /\ nv[2] \notin TrueTexts \cup FalseTexts
                 THEN [acc EXCEPT !.err = TRUE]
                 ELSE LET on == Len(nv) = 1 \/ nv[2] \in TrueTexts
                      IN ParseFlags(Tail(tokens),
                            [acc EXCEPT !.stdin = IF flag = "stdin" THEN on ELSE @,
                                        !.help = IF flag \in {"help", "version"}
                                                 THEN on ELSE @])
            ELSE IF Len(nv) = 1 /\ Len(tokens) = 1 THEN [acc EXCEPT !.err = TRUE]
            ELSE LET value == IF Len(nv) = 2 THEN nv[2] ELSE tokens[2]
                     after == IF Len(nv) = 2 THEN Tail(tokens) ELSE Tail(Tail(tokens))
                 IN ParseFlags(after,
                       [acc EXCEPT !.configs = IF flag = "settings"
                                               THEN Append(@, value) ELSE @])

\* line 270: app.Run(args) up to the Before hook. A parse error, help and
\* version end the run without Before and without the action.
AppRun ==
    /\ pc = "filter"
    /\ i > Len(osArgs)
    /\ LET r == ParseFlags(cliArgs, ParseStart)
       IN /\ pc' = IF r.err \/ r.help THEN "stopped" ELSE "before"
          /\ settings' = [settings EXCEPT !.Stdin = r.stdin]
          /\ configs' = r.configs
          /\ ctxArgs' = r.rest
          /\ hist' = [hist EXCEPT !.cliError = r.err]
    /\ UNCHANGED <<osArgs, cliArgs, next, i, globalContext, args, files, status,
                   exitCode, stdout>>

-----------------------------------------------------------------------------
(* The Before hook (line 126-217). *)

\* what default discovery can find in the working directory
DiscoveredNames == { <<"r",".","t","x","t">> }

\* line 169
MainName(template) == Split(TrimLeft(Base(template), "."), ".")[1]

\* line 180
DefaultConfigFile(template) ==
    <<".">> \o MainName(template) \o <<".","y","a","m","l">>

\* what a settings mapping in a file holds
FileConfig ==
    <<"A">> :> MapV(<<"B">> :> Scalar("int", <<"9">>))
    @@ <<"e","n","v">> :> Scalar("string", <<"s">>)

\* what reading and decoding a settings file can come to
FileStates == {"absent", "unreadable", "undecodable", "ok"}

\* a loader that lets every unreadable file pass
LoadStopsOnDecodeOnly(defaulted, st) == st = "undecodable"

\* line 186-196: the error that ends loading
LoadStops(defaulted, st) ==
    IF st \in {"absent", "unreadable"} THEN ~defaulted
    ELSE st = "undecodable"

\* line 128-183: standard input, the left-over arguments, default discovery of
\* the template, the list of settings files
Before ==
    /\ pc = "before"
    /\ \E tty \in BOOLEAN, found \in DiscoveredNames \cup { <<>> } :
        LET stdin == settings.Stdin \/ ~tty
            discover == Len(settings.Templates) = 0 /\ ~stdin /\ found # <<>>
            templates == IF discover THEN <<found>> ELSE settings.Templates
        IN /\ (Len(settings.Templates) = 0 /\ ~stdin) \/ found = <<>>
           /\ IF Len(templates) = 0
              THEN /\ pc' = "stopped"
                   /\ exitCode' = 1
                   /\ settings' = [settings EXCEPT !.Stdin = stdin,
                                      !.Arguments = @ \o ctxArgs]
              ELSE /\ pc' = "load"
                   /\ exitCode' = exitCode
                   /\ settings' =
                         [settings EXCEPT
                            !.Stdin = stdin,
                            !.Arguments = @ \o ctxArgs,
                            !.Templates = templates,
                            !.Defaulted = (Len(configs) = 0),
                            !.ConfigFiles = IF Len(configs) = 0
                                            THEN <<DefaultConfigFile(templates[1])>>
                                            ELSE configs]
           /\ hist' = [hist EXCEPT !.discovered = discover]
    /\ i' = 1
    /\ UNCHANGED <<osArgs, cliArgs, next, configs, ctxArgs, globalContext, args,
                   files, status, stdout>>

\* line 185-208: one settings file
LoadConfig ==
    /\ pc = "load"
    /\ i <= Len(settings.ConfigFiles)
    /\ \E st \in FileStates :
        /\ pc' = IF LoadStops(settings.Defaulted, st) THEN "stopped" ELSE "load"
        /\ settings' = IF st = "ok"
                       THEN [settings EXCEPT
                               !.Config = MergoMerge(@, retyper(FileConfig), FALSE)]
                       ELSE settings
        /\ hist' = [hist EXCEPT !.loads =
                       Append(@, [file |-> settings.ConfigFiles[i], state |-> st,
                                  defaulted |-> settings.Defaulted])]
    /\ i' = i + 1
    /\ UNCHANGED <<osArgs, cliArgs, next, configs, ctxArgs, globalContext, args,
                   files, status, exitCode, stdout>>

\* line 216 and line 269: Before returns nil and the action, renderizer, runs
RunAction ==
    /\ pc = "load"
    /\ i > Len(settings.ConfigFiles)
    /\ pc' = "args"
    /\ i' = 1
    /\ UNCHANGED <<osArgs, cliArgs, next, configs, ctxArgs, settings,
                   globalContext, args, files, status, exitCode, stdout, hist>>

NextMain ==
    \/ FilterArg
    \/ AppRun
    \/ Before
    \/ LoadConfig
    \/ RunAction
    \/ NextRenderizer

\* the command lines main is started with
OsArgPool ==
    { <<"d","/","t",".","x">>,
      <<"-","C">>,
      <<"-","c">>,
      <<"-","c","o","u","n","t","=","3">>,
      <<"-","-","a","=","1">>,
      <<"-","-","e","n","v","i","r","o","n","m","e","n","t","=","v">>,
      <<"-","-","s","e","t","t","i","n","g","s","=","f">>,
      <<"-","S">>,
      <<"-">> }

\* the process from main, on any command line
InitMain ==
    /\ pc = "filter"
    /\ osArgs \in SeqsUpTo(OsArgPool, MaxOsArgs)
    /\ cliArgs = <<>>
    /\ next = FALSE
    /\ configs = <<>>
    /\ ctxArgs = <<>>
    /\ settings = InitialSettings
    /\ i = 1
    /\ globalContext = EmptyMap
    /\ args = <<>>
    /\ files = <<>>
    /\ status = 0
    /\ exitCode = 0
    /\ stdout = <<>>
    /\ hist = InitialHist

SpecMain == InitMain /\ [][NextMain]_vars

-----------------------------------------------------------------------------
(* Reading a context and the record of the steps. *)

Absent == [t |-> "absent"]

RECURSIVE Get(_, _)
\* the value at a path of keys, Absent when the path leads nowhere
Get(m, path) ==
    IF path[1] \notin DOMAIN m THEN Absent
    ELSE IF Len(path) = 1 THEN m[path[1]]
    ELSE IF m[path[1]].t = "map" THEN Get(m[path[1]].m, Tail(path))
    ELSE Absent

RECURSIVE BranchKeys(_)
\* the keys of a single-branch mapping, outermost first
BranchKeys(m) ==
    LET k == CHOOSE k \in DOMAIN m : TRUE
    IN IF m[k].t = "map" THEN <<k>> \o BranchKeys(m[k].m) ELSE <<k>>

\* the value at the leaf of a single-branch mapping
BranchLeaf(m) == Get(m, BranchKeys(m))

RECURSIVE LeafPaths(_)
\* the paths of a mapping that end at a value that is not a mapping
LeafPaths(m) ==
    UNION {IF m[k].t = "map" THEN {<<k>> \o q : q \in LeafPaths(m[k].m)} ELSE {<<k>>}
           : k \in DOMAIN m}

\* the steps of the argument loop that built a path assignment
AssignSteps == {k \in 1..Len(hist.steps) : hist.steps[k].kind = "assign"}

PathOf(k) == BranchKeys(hist.steps[k].ctx)

ProperPrefix(p, q) == Len(p) < Len(q) /\ SubSeq(q, 1, Len(p)) = p

\* one path runs through the leaf of the other
Clash(p, q) == ProperPrefix(p, q) \/ ProperPrefix(q, p)

RECURSIVE ValuesAt(_, _)
\* the leaf values of the first n steps that target path p, in step order
ValuesAt(p, n) ==
    IF n = 0 THEN <<>>
    ELSE ValuesAt(p, n - 1)
         \o (IF n \in AssignSteps /\ PathOf(n) = p
             THEN BranchLeaf(hist.steps[n].ctx).l ELSE <<>>)

\* an option whose value is the argument after it
TakesNext(a) ==
    \/ a = <<"-","S">>
    \/ ToLower(a) \in { <<"-","-","s","e","t","t","i","n","g","s">>,
                        <<"-","-","m","i","s","s","i","n","g">> }

RECURSIVE ValueSlot(_)
\* argument k of the command line is the value of the option before it
ValueSlot(k) == k > 1 /\ ~ValueSlot(k - 1) /\ TakesNext(osArgs[k - 1])

\* the bits set in a status
Bits(n) == {b \in 0..3 : (n \div (2 ^ b)) % 2 = 1}

-----------------------------------------------------------------------------
(* C1 *)

\* C1: the status given to os.Exit is the bitwise OR of the codes returned
\* for all targets, each code 0, 1, 2, 4, 8 or 15: its bits are the union of
\* the bits of the codes, every target has contributed a code, and it is 0
\* exactly when every target returned 0.
ExitStatusIsOrOfCodes ==
    pc = "exited" =>
        /\ Len(hist.targets) = Len(files)
        /\ \A k \in 1..Len(hist.targets) : hist.targets[k].code \in {0, 1, 2, 4, 8, 15}
        /\ exitCode \in 0..15
        /\ Bits(exitCode) = UNION {Bits(hist.targets[k].code) : k \in 1..Len(hist.targets)}
        /\ (exitCode = 0 <=> \A k \in 1..Len(hist.targets) : hist.targets[k].code = 0)

\* C1 witness: two targets, one rendered and one with a parse failure, exit 4
ExitStatusWitness ==
    /\ pc = "exited"
    /\ Len(hist.targets) = 2
    /\ {hist.targets[1].code, hist.targets[2].code} = {0, 4}
    /\ exitCode = 4
    /\ Len(stdout) = 1

-----------------------------------------------------------------------------
(* C2 *)

StageCode == [s \in {"open", "read", "parse", "execute"} |->
                 CASE s = "open" -> 1 [] s = "read" -> 2
                   [] s = "parse" -> 4 [] s = "execute" -> 8]

AllStages == <<"open", "read", "parse", "execute">>

\* the stages in order, from the first stage the target has (a named file is
\* opened, standard input is not) up to the last stage run
InStageOrder(file, stages) ==
    LET first == IF file = <<>> THEN 2 ELSE 1
    IN /\ Len(stages) >= 1
       /\ first + Len(stages) - 1 <= Len(AllStages)
       /\ stages = SubSeq(AllStages, first, first + Len(stages) - 1)

\* C2: every target of the render list is taken through open, read, parse,
\* execute in that order; the first failing stage ends the target with its
\* code (15 for a fault) and without output, a target that passes every stage
\* has its output written, and the driver goes on to the next target whatever
\* the code: target k of the record is files[k], and at exit every file of
\* the list has been processed.
TargetsIsolated ==
    /\ pc \in {"render", "exited"} =>
          /\ Len(hist.targets) = (IF pc = "exited" THEN Len(files) ELSE i - 1)
          /\ i <= Len(files) + 1
          /\ Len(stdout) = Cardinality({k \in 1..Len(hist.targets) : hist.targets[k].code = 0})
    /\ \A k \in 1..Len(hist.targets) :
          LET e == hist.targets[k]
          IN /\ e.file = files[k]
             /\ InStageOrder(e.file, e.stages)
             /\ e.code = 0 =>
                   /\ e.stages[Len(e.stages)] = "execute"
                   /\ e.wrote = 1
             /\ e.code # 0 =>
                   /\ e.wrote = 0
                   /\ e.code = (IF e.how = "panic" THEN 15
                                ELSE StageCode[e.stages[Len(e.stages)]])

\* C2 witness: a target fails at parse and the target after it is rendered
TargetsIsolatedWitness ==
    /\ pc = "exited"
    /\ Len(hist.targets) >= 2
    /\ hist.targets[1].code = 4
    /\ hist.targets[1].stages = <<"open", "read", "parse">>
    /\ hist.targets[2].code = 0
    /\ stdout = <<files[2]>>

-----------------------------------------------------------------------------
(* C4 *)

\* the context is complete: the render loop has it
ContextFinal == pc \in {"render", "exited"}

\* C4 as stated: at every settings path, nested or not, the CLI value is
\* kept where the CLI supplied the path and the settings value is present
\* where it did not (the key the environment is injected under set aside).
SettingsFillEveryPath ==
    ContextFinal =>
        \A p \in LeafPaths(settings.Config) :
            (hist.injected /\ p[1] = settings.Environment)
            \/ (IF Get(hist.cli, p) # Absent
                THEN Get(globalContext, p) = Get(hist.cli, p)
                ELSE Get(globalContext, p) = Widen(Get(settings.Config, p)))

\* C4 amended: the copy is by top-level key. A top-level key the CLI supplied
\* keeps the CLI value whole (the settings subtree under it is dropped), and a
\* top-level settings key the CLI did not supply holds the settings value, an
\* integer widened to int64, unless it is the key the environment is
\* injected under.
SettingsFillTopLevelKeys ==
    ContextFinal =>
        \A n \in DOMAIN settings.Config :
            (hist.injected /\ n = settings.Environment)
            \/ (IF n \in DOMAIN hist.cli
                THEN globalContext[n] = hist.cli[n]
                ELSE n \in DOMAIN globalContext
                     /\ globalContext[n] = Widen(settings.Config[n])
                     /\ (globalContext[n].t = "val" => globalContext[n].kind # "int"))

\* C4 witness: --a.b=1 with settings {A: {B: 9, C: 2}, D: 7}: A.B is the CLI's
\* 1, A.C is absent and D is 7
SettingsFillWitness ==
    /\ ContextFinal
    /\ Get(settings.Config, <<<<"A">>, <<"C">>>>) # Absent
    /\ Get(globalContext, <<<<"A">>, <<"B">>>>) = Scalar("int64", <<"1">>)
    /\ Get(globalContext, <<<<"A">>, <<"C">>>>) = Absent
    /\ Get(globalContext, <<<<"D">>>>) = Scalar("int64", <<"7">>)

-----------------------------------------------------------------------------
(* C5 *)

\* the argument loop is running or has just ended: the context is as merged
Merging == pc = "args"

-----------------------------------------------------------------------------
(* C6 *)

\* a toggle token as the argument loop reads it
ToggleToken(a) == Len(a) >= 2 /\ a[1] = "-" /\ a[2] \in {"c", "C"}

TogglesBefore(k) ==
    Cardinality({j \in 1..(k - 1) : ToggleToken(settings.Arguments[j])})

\* first character upper case, the rest lower case
TitleCased(seg) ==
    [n \in 1..Len(seg) |-> IF n = 1 THEN ToUpperCh(seg[n]) ELSE ToLowerCh(seg[n])]

\* the keys a token is to produce, by the number of toggles before it
ExpectedKeys(k) ==
    LET segs == Segments(settings.Arguments[k])
    IN IF TogglesBefore(k) % 2 = 0
       THEN [n \in 1..Len(segs) |-> TitleCased(segs[n])]
       ELSE segs

\* C6: the flag starts enabled; the keys of the path assignment a token
\* builds are its segments title-cased when an even number of toggles
\* precedes it and as written when an odd number does, and the top-level keys
\* of the context are exactly those the processed tokens were to produce, so
\* a toggle changes no key made before it.
CapitalizationByPosition ==
    /\ (pc = "args" /\ i = 1) => settings.Capitalize
    /\ pc = "args" => settings.Capitalize = (TogglesBefore(i) % 2 = 0)
    /\ \A k \in AssignSteps : PathOf(k) = ExpectedKeys(hist.steps[k].idx)
    /\ pc = "args" =>
          DOMAIN globalContext = {ExpectedKeys(hist.steps[k].idx)[1] : k \in AssignSteps}

\* C6 witness: --nAme=v -C --a=x yields the keys Name and a
CapitalizationWitness ==
    /\ pc = "args"
    /\ i > Len(settings.Arguments)
    /\ Len(hist.steps) = 3
    /\ hist.steps[2].kind = "toggle"
    /\ DOMAIN globalContext = {<<"N","a","m","e">>, <<"a">>}

-----------------------------------------------------------------------------
(* C9 *)

\* C9 as stated: no token that starts with a dash makes an iteration of the
\* argument loop fault.
BuilderNeverFaults == pc # "panic"

-----------------------------------------------------------------------------
(* C3 *)

\* C3 as stated: when template files were given on the command line or one
\* was found by default discovery, the targets rendered are exactly those
\* files, each once, in order, and standard input is not a target.
RendersTheNamedTemplates ==
    pc = "exited" =>
        IF Len(settings.Templates) > 0
        THEN [k \in 1..Len(hist.targets) |-> hist.targets[k].file] = settings.Templates
        ELSE \A k \in 1..Len(hist.targets) : hist.targets[k].file = <<>>

-----------------------------------------------------------------------------
(* C7 *)

EnvironmentOption == <<"-","-","e","n","v","i","r","o","n","m","e","n","t","=">>

\* the name given with --environment=NAME (the last one given), env without
ConfiguredEnvironmentKey ==
    LET given == {k \in 1..Len(osArgs) :
                     HasPrefix(osArgs[k], EnvironmentOption) /\ ~ValueSlot(k)}
    IN IF given = {} THEN <<"e","n","v">>
       ELSE From(osArgs[CHOOSE k \in given : \A j \in given : j <= k],
                 Len(EnvironmentOption))

\* C7 as stated: once injection has run, the context holds the environment
\* mapping under the key named by the environment option, whatever the CLI
\* tokens or the settings files had put there, and nothing changes it before
\* the templates are rendered.
EnvUnderConfiguredKey ==
    (ContextFinal /\ hist.injected) =>
        /\ ConfiguredEnvironmentKey \in DOMAIN globalContext
        /\ globalContext[ConfiguredEnvironmentKey] = EnvironMap

-----------------------------------------------------------------------------
(* C8 *)

\* loading ended with an error at file k
StoppedAt(k) == pc = "stopped" /\ k = Len(hist.loads)

\* nothing of any template was read, parsed, executed or written
NothingRendered == hist.targets = <<>> /\ stdout = <<>> /\ files = <<>>

\* C8 as stated: an explicitly named file that cannot be read or decoded,
\* and a default file that exists and cannot be decoded, stop loading and
\* nothing is rendered; loading goes on past a file that did not load only
\* when the list is the synthesized default and the file is absent, with an
\* empty settings mapping.
LoadingContinuesOnlyIfAbsent ==
    \A k \in 1..Len(hist.loads) :
        LET e == hist.loads[k]
        IN /\ ((~e.defaulted /\ e.state # "ok") \/ e.state = "undecodable")
                 => (StoppedAt(k) /\ NothingRendered)
           /\ (e.state # "ok" /\ ~StoppedAt(k))
                 => (e.defaulted /\ e.state = "absent" /\ settings.Config = EmptyMap)

\* C8 amended: as stated, but loading goes on past the synthesized default
\* file whenever it cannot be read, absent or not (a default file that exists
\* and is unreadable is skipped as an absent one is), with an empty settings
\* mapping; only a default file that was read and cannot be decoded stops.
LoadingFailsClosed ==
    /\ \A k \in 1..Len(hist.loads) :
        LET e == hist.loads[k]
        IN /\ StoppedAt(k)
                 <=> ((~e.defaulted /\ e.state # "ok") \/ e.state = "undecodable")
           /\ StoppedAt(k) => NothingRendered
           /\ (e.state # "ok" /\ ~StoppedAt(k))
                 => /\ e.defaulted
                    /\ e.state \in {"absent", "unreadable"}
                    /\ settings.Config = EmptyMap
    /\ pc = "stopped" => NothingRendered

\* C8 witness: the second of two named settings files cannot be decoded and
\* loading stops there, the first having loaded
LoadingFailsClosedWitness ==
    /\ pc = "stopped"
    /\ Len(hist.loads) = 2
    /\ ~hist.loads[2].defaulted
    /\ hist.loads[1].state = "ok"
    /\ hist.loads[2].state = "undecodable"
    /\ settings.Config # EmptyMap

-----------------------------------------------------------------------------
(* C10 *)

\* the argument loop of renderizer ran to its end
LoopDone == pc \in {"files", "config", "env", "render", "exited"}

\* a toggle as C10 describes it: c or C after the dash and no =
ToggleAsDescribed(a) ==
    Len(a) >= 2 /\ a[1] = "-" /\ a[2] \in {"c", "C"} /\ ~Contains(a, "=")

====
